---- MODULE Spec2Model ----
(***************************************************************************)
(* Model of smqtk.iqr.iqr_session.IqrSession: the adjudication ledger, the *)
(* working-set builder, the refine step, the four cached result views,     *)
(* reset and the state (de)serialisation.                                   *)
(*                                                                         *)
(* Spec        : public operations executed one after the other, one       *)
(*               action per operation.                                     *)
(* CallsSpec   : the same calls, none observed, in longer behaviours.       *)
(* ThreadSpec  : the operations called by concurrent threads, one action   *)
(*               per step a thread takes with or without the lock.         *)
(* FanoutSpec  : the calls of CallsSpec on sessions made with each         *)
(*               pos_seed_neighbors, the neighbor index returning as many  *)
(*               neighbors as it is asked for.                             *)
(***************************************************************************)
EXTENDS Integers, Sequences, FiniteSets, TLC

\* ------------------------------------------------------------------------
\* Bounds of the model
\* ------------------------------------------------------------------------
\* Descriptor elements that exist in the world, named by their uuid.
Elems == {1, 2}
\* Relevancy scores a ranker can hand out are 0..MaxScore.
MaxScore == 1
\* Number of public operations called on the session in one behaviour.
MaxOps == 4

\* Number of calls in a behaviour of unobserved calls.
MaxCalls == 5
\* Number of calls the threads make in one concurrent behaviour.
MaxThreadOps == 3
\* Depth of with-blocks a thread opens on the session.
MaxWiths == 1

Scores == 0..MaxScore

\* The threads that call the session.
Threads == {1, 2}

\* Value of the pos_seed_neighbors constructor argument of the session.
pos_seed_neighbors == 2

\* ------------------------------------------------------------------------
\* Optional values: Python None and "not None"
\* ------------------------------------------------------------------------
None == <<>>
Some(x) == <<x>>
IsNone(o) == o = <<>>
Val(o) == o[1]

\* ------------------------------------------------------------------------
\* Descriptor elements
\* ------------------------------------------------------------------------
uuid(d) == d
type(d) == "DescriptorMemoryElement"
vector(d) == <<d, d + 1>>

VARIABLES
  working_set,                     \* self.working_set (set of elements)
  _wi_seeds_used,                  \* self._wi_seeds_used (set of uuids)
  external_positive_descriptors,
  external_negative_descriptors,
  positive_descriptors,
  negative_descriptors,
  rank_contrib_pos,
  rank_contrib_pos_ext,
  rank_contrib_neg,
  rank_contrib_neg_ext,
  results,                         \* None or Some(dict in iteration order)
  _ordered_results,                \* None or Some(list of <<element, score>>)
  _ordered_pos,
  _ordered_neg,
  _ordered_non_adj,
  rel_index,                       \* None or Some([id, built])
  config,                          \* uuid, pos_seed_neighbors, rel_index_config
  archive,                         \* bytes last returned by get_state_bytes
  nn_calls,                        \* nn_index.nn calls per element since reset
  rel_index_count,                 \* RelevancyIndex instances created so far
  call,                            \* the observed call: operation, arguments, outcome
  nops,                            \* number of calls made so far
  lock,                            \* self.lock: owner (0: nobody) and hold count
  pc,                              \* where each thread is in the method it runs
  local                            \* the local variables of each thread

ledgerVars == <<external_positive_descriptors, external_negative_descriptors,
                positive_descriptors, negative_descriptors>>
contribVars == <<rank_contrib_pos, rank_contrib_pos_ext,
                 rank_contrib_neg, rank_contrib_neg_ext>>
cacheVars == <<_ordered_results, _ordered_pos, _ordered_neg, _ordered_non_adj>>
wsVars == <<working_set, _wi_seeds_used, rel_index, rel_index_count, nn_calls>>
sessionVars == <<ledgerVars, contribVars, cacheVars, results,
                 working_set, _wi_seeds_used, rel_index>>
threadVars == <<lock, pc, local>>
vars == <<ledgerVars, contribVars, cacheVars, wsVars, results, archive, config,
          call, nops, threadVars>>

\* ------------------------------------------------------------------------
\* The record of the last call
\* ------------------------------------------------------------------------
\* What __init__ is given and keeps in the session: self.uuid (session_uid),
\* self.pos_seed_neighbors and self.rel_index_config.
ConstructorArguments ==
  [uuid |-> "session_uid", pos_seed_neighbors |-> pos_seed_neighbors,
   rel_index_config |-> "rel_index_config"]

\* The session fields as one record: what a call finds when it starts.
Fields ==
  [working_set |-> working_set, _wi_seeds_used |-> _wi_seeds_used,
   external_positive_descriptors |-> external_positive_descriptors,
   external_negative_descriptors |-> external_negative_descriptors,
   positive_descriptors |-> positive_descriptors,
   negative_descriptors |-> negative_descriptors,
   rank_contrib_pos |-> rank_contrib_pos,
   rank_contrib_pos_ext |-> rank_contrib_pos_ext,
   rank_contrib_neg |-> rank_contrib_neg,
   rank_contrib_neg_ext |-> rank_contrib_neg_ext,
   results |-> results, _ordered_results |-> _ordered_results,
   _ordered_pos |-> _ordered_pos, _ordered_neg |-> _ordered_neg,
   _ordered_non_adj |-> _ordered_non_adj, rel_index |-> rel_index,
   nn_calls |-> nn_calls, config |-> config]

NoFields ==
  [working_set |-> {}, _wi_seeds_used |-> {},
   external_positive_descriptors |-> {}, external_negative_descriptors |-> {},
   positive_descriptors |-> {}, negative_descriptors |-> {},
   rank_contrib_pos |-> {}, rank_contrib_pos_ext |-> {},
   rank_contrib_neg |-> {}, rank_contrib_neg_ext |-> {},
   results |-> <<>>, _ordered_results |-> <<>>, _ordered_pos |-> <<>>,
   _ordered_neg |-> <<>>, _ordered_non_adj |-> <<>>, rel_index |-> <<>>,
   nn_calls |-> [d \in Elems |-> 0], config |-> ConstructorArguments]

NoCall ==
  [op |-> "none", err |-> "none", observed |-> FALSE,
   new_positives |-> {}, new_negatives |-> {},
   un_positives |-> {}, un_negatives |-> {},
   queried |-> {}, rank_pos |-> {}, rank_neg |-> {},
   ret |-> <<>>, shared |-> {}, mutated |-> FALSE, pre |-> NoFields]

\* `call` describes one call of a behaviour, the observed one: the operation,
\* its arguments, what it returned or raised, and the fields it started from;
\* for a returned list, the fields of the session it is the same object as,
\* and whether the caller has modified it since.
\* Every call is taken both observed and unobserved, and the observed call is
\* the last call of its behaviour: each pair of a reachable state and an
\* argument tuple is observed, and what is recorded about a call never
\* multiplies the states explored after it.
Called(name) ==
  [NoCall EXCEPT !.op = name, !.observed = TRUE, !.pre = Fields]

Outcome(observe, rec) == IF observe THEN rec ELSE NoCall

CanCall == nops < MaxOps /\ ~call.observed

\* The local variables of a thread: update_working_set's pos_examples still
\* to iterate, its p and updated; get_state_bytes' four lists; the bytes
\* and factory given to set_state_bytes; the with-blocks it is inside; how
\* often it held the lock when it made its last call, and how that call
\* ended ("": no call since the thread last entered or left a with-block,
\* "none": it returned, else what it raised).
NoLocals ==
  [todo |-> {}, p |-> 0, updated |-> FALSE, lists |-> <<>>, b |-> <<>>,
   withs |-> 0, held |-> 0, err |-> ""]

\* ------------------------------------------------------------------------
\* __init__
\* ------------------------------------------------------------------------
Init ==
  /\ working_set = {}
  /\ _wi_seeds_used = {}
  /\ external_positive_descriptors = {}
  /\ external_negative_descriptors = {}
  /\ positive_descriptors = {}
  /\ negative_descriptors = {}
  /\ rank_contrib_pos = {}
  /\ rank_contrib_pos_ext = {}
  /\ rank_contrib_neg = {}
  /\ rank_contrib_neg_ext = {}
  /\ results = None
  /\ _ordered_results = None
  /\ _ordered_pos = None
  /\ _ordered_neg = None
  /\ _ordered_non_adj = None
  /\ rel_index = None
  /\ config = ConstructorArguments
  /\ archive = None
  /\ nn_calls = [d \in Elems |-> 0]
  /\ rel_index_count = 0
  /\ call = NoCall
  /\ nops = 0
  /\ lock = [owner |-> 0, count |-> 0]
  /\ pc = [t \in Threads |-> "idle"]
  /\ local = [t \in Threads |-> NoLocals]

\* ------------------------------------------------------------------------
\* external_descriptors(positive, negative)
\* ------------------------------------------------------------------------
\* Variant: the external positives are replaced by the ones given.
ExtPositive_Replaced(ext_pos, positive, negative) == positive \ negative

ExtPositive(ext_pos, positive, negative) == (ext_pos \cup positive) \ negative

ExtNegative(ext_neg, positive, negative) == (ext_neg \cup negative) \ positive

\* The body of the method, run under the lock.
ExternalDescriptorsFields(positive, negative) ==
  /\ external_positive_descriptors' =
       ExtPositive(external_positive_descriptors, positive, negative)
  /\ external_negative_descriptors' =
       ExtNegative(external_negative_descriptors, positive, negative)
  /\ UNCHANGED <<positive_descriptors, negative_descriptors, contribVars,
                 cacheVars, wsVars, results, archive, config>>

ExternalDescriptors ==
  /\ CanCall
  /\ \E positive \in SUBSET Elems, negative \in SUBSET Elems,
        observe \in BOOLEAN :
       /\ ExternalDescriptorsFields(positive, negative)
       /\ call' = Outcome(observe,
                          [Called("external_descriptors") EXCEPT
                             !.new_positives = positive,
                             !.new_negatives = negative])
  /\ nops' = nops + 1
  /\ UNCHANGED threadVars

\* ------------------------------------------------------------------------
\* adjudicate(new_positives, new_negatives, un_positives, un_negatives)
\* ------------------------------------------------------------------------
\* Variant: the removals are applied before the additions.
AdjPositive_RemoveFirst(pos, new_positives, new_negatives, un_positives) ==
  ((pos \ un_positives) \ new_negatives) \cup new_positives

AdjPositive(pos, new_positives, new_negatives, un_positives) ==
  ((pos \cup new_positives) \ un_positives) \ new_negatives

\* Variant: new positives are not taken out of the negatives.
AdjNegative_KeepsNewPositives(neg, new_positives, new_negatives, un_negatives) ==
  (neg \cup new_negatives) \ un_negatives

AdjNegative(neg, new_positives, new_negatives, un_negatives) ==
  ((neg \cup new_negatives) \ un_negatives) \ new_positives

\* The cache a changed adjudication set resets, or keeps.
ResetIf(changed, cache) == IF changed THEN None ELSE cache

\* Variant: the non-adjudicated cache is reset only when both sets changed.
NonAdjChanged_Both(pos_changed, neg_changed) == pos_changed /\ neg_changed

NonAdjChanged(pos_changed, neg_changed) == pos_changed \/ neg_changed

\* The body of the method, run under the lock.
AdjudicateFields(new_positives, new_negatives, un_positives, un_negatives) ==
  LET pos_before == positive_descriptors
      pos_after == AdjPositive(positive_descriptors, new_positives,
                               new_negatives, un_positives)
      pos_changed == pos_before # pos_after
      neg_before == negative_descriptors
      neg_after == AdjNegative(negative_descriptors, new_positives,
                               new_negatives, un_negatives)
      neg_changed == neg_before # neg_after
  IN /\ positive_descriptors' = pos_after
     /\ _ordered_pos' = ResetIf(pos_changed, _ordered_pos)
     /\ negative_descriptors' = neg_after
     /\ _ordered_neg' = ResetIf(neg_changed, _ordered_neg)
     /\ _ordered_non_adj' =
          ResetIf(NonAdjChanged(pos_changed, neg_changed), _ordered_non_adj)
     /\ UNCHANGED <<external_positive_descriptors,
                    external_negative_descriptors, contribVars,
                    _ordered_results, wsVars, results, archive, config>>

Adjudicate ==
  /\ CanCall
  /\ \E new_positives \in SUBSET Elems, new_negatives \in SUBSET Elems,
        un_positives \in SUBSET Elems, un_negatives \in SUBSET Elems,
        observe \in BOOLEAN :
       /\ AdjudicateFields(new_positives, new_negatives,
                           un_positives, un_negatives)
       /\ call' = Outcome(observe,
                          [Called("adjudicate") EXCEPT
                             !.new_positives = new_positives,
                             !.new_negatives = new_negatives,
                             !.un_positives = un_positives,
                             !.un_negatives = un_negatives])
  /\ nops' = nops + 1
  /\ UNCHANGED threadVars

\* ------------------------------------------------------------------------
\* update_working_set(nn_index)
\* ------------------------------------------------------------------------
PosExamples(ext_pos, pos) == ext_pos \cup pos

\* The error update_working_set raises, "none" when it goes through.
\* Variant: the check for positive examples is missing.
UpdateWorkingSetError_NoCheck(pos_examples) == "none"

UpdateWorkingSetError(pos_examples) ==
  IF Cardinality(pos_examples) = 0 THEN "NoPositiveExamples" ELSE "none"

\* Variant: every positive example is queried, used before or not.
NewSeeds_All(pos_examples, seeds_used) == pos_examples

\* The positive examples the loop queries the neighbor index with.
NewSeeds(pos_examples, seeds_used) ==
  {p \in pos_examples : uuid(p) \notin seeds_used}

\* What nn_index.nn(p, n=pos_seed_neighbors)[0] can return: up to n elements
\* of a non-empty index.
NeighborSets ==
  {S \in SUBSET Elems : Cardinality(S) >= 1 /\ Cardinality(S) <= config.pos_seed_neighbors}

\* Variant: the index is rebuilt on every call.
RebuiltIndex_Always(updated, old_index, new_id, ws) ==
  Some([id |-> new_id, built |-> ws])

\* Variant: a call that used no new seed leaves no index.
RebuiltIndex_Dropped(updated, old_index, new_id, ws) ==
  IF updated THEN Some([id |-> new_id, built |-> ws]) ELSE None

\* rel_index after the "if updated:" block.
RebuiltIndex(updated, old_index, new_id, ws) ==
  IF updated THEN Some([id |-> new_id, built |-> ws]) ELSE old_index

\* Variant: the working set is cleared before new neighbors are added.
UpdateWorkingSetFields_Cleared(seeds, nn) ==
  LET updated == seeds # {}
  IN /\ working_set' = IF updated THEN UNION {nn[p] : p \in seeds}
                                  ELSE working_set
     /\ _wi_seeds_used' = _wi_seeds_used \cup {uuid(p) : p \in seeds}
     /\ nn_calls' = [d \in Elems |->
                       IF d \in seeds THEN nn_calls[d] + 1 ELSE nn_calls[d]]
     /\ rel_index' = RebuiltIndex(updated, rel_index,
                                  rel_index_count + 1, working_set')
     /\ rel_index_count' = IF updated THEN rel_index_count + 1
                                      ELSE rel_index_count
     /\ UNCHANGED <<ledgerVars, contribVars, cacheVars, results, archive, config>>

\* Variant: the seeds are put into the working set with their neighbors.
UpdateWorkingSetFields_WithSeeds(seeds, nn) ==
  LET updated == seeds # {}
  IN /\ working_set' = working_set \cup seeds \cup UNION {nn[p] : p \in seeds}
     /\ _wi_seeds_used' = _wi_seeds_used \cup {uuid(p) : p \in seeds}
     /\ nn_calls' = [d \in Elems |->
                       IF d \in seeds THEN nn_calls[d] + 1 ELSE nn_calls[d]]
     /\ rel_index' = RebuiltIndex(updated, rel_index,
                                  rel_index_count + 1, working_set')
     /\ rel_index_count' = IF updated THEN rel_index_count + 1
                                      ELSE rel_index_count
     /\ UNCHANGED <<ledgerVars, contribVars, cacheVars, results, archive, config>>

\* The method past its check of pos_examples: the loop over the new seeds,
\* nn[p] being what the neighbor index returns for p, and the rebuild.
UpdateWorkingSetFields(seeds, nn) ==
  LET updated == seeds # {}
  IN /\ working_set' = working_set \cup UNION {nn[p] : p \in seeds}
     /\ _wi_seeds_used' = _wi_seeds_used \cup {uuid(p) : p \in seeds}
     /\ nn_calls' = [d \in Elems |->
                       IF d \in seeds THEN nn_calls[d] + 1 ELSE nn_calls[d]]
     /\ rel_index' = RebuiltIndex(updated, rel_index,
                                  rel_index_count + 1, working_set')
     /\ rel_index_count' = IF updated THEN rel_index_count + 1
                                      ELSE rel_index_count
     /\ UNCHANGED <<ledgerVars, contribVars, cacheVars, results, archive, config>>

\* The whole method, called with no other call in progress.
UpdateWorkingSet ==
  /\ CanCall
  /\ \E observe \in BOOLEAN :
       /\ nops' = nops + 1
       /\ LET pos_examples == PosExamples(external_positive_descriptors,
                                          positive_descriptors)
          IN IF UpdateWorkingSetError(pos_examples) # "none"
             THEN /\ call' = Outcome(observe,
                               [Called("update_working_set") EXCEPT
                                  !.err = UpdateWorkingSetError(pos_examples)])
                  /\ UNCHANGED <<ledgerVars, contribVars, cacheVars, wsVars,
                                 results, archive, config>>
             ELSE LET seeds == NewSeeds(pos_examples, _wi_seeds_used)
                  IN \E nn \in [seeds -> NeighborSets] :
                       /\ UpdateWorkingSetFields(seeds, nn)
                       /\ call' = Outcome(observe,
                                    [Called("update_working_set") EXCEPT
                                       !.queried = seeds])
  /\ UNCHANGED threadVars

\* ------------------------------------------------------------------------
\* refine()
\* ------------------------------------------------------------------------
\* What rel_index.rank(pos, neg) can return: a dict, in its iteration order,
\* giving a score to every element the index was built over.
RankOutputs(built) ==
  {r \in [1..Cardinality(built) -> built \X Scores] :
     \A i, j \in 1..Cardinality(built) : i # j => r[i][1] # r[j][1]}

\* Variant: the positive examples are checked before the index.
RefineError_PosFirst(index, pos) ==
  IF pos = {} THEN "NoPositiveAdjudications"
  ELSE IF IsNone(index) THEN "NotInitialized"
  ELSE "none"

\* The error refine() raises, "none" when it goes through.
RefineError(index, pos) ==
  IF IsNone(index) THEN "NotInitialized"
  ELSE IF pos = {} THEN "NoPositiveAdjudications"
  ELSE "none"

RefinePos(pos, ext_pos) == pos \cup ext_pos

\* Variant: the external negatives are left out of the ranking.
RefineNeg_NoExternal(neg, ext_neg) == neg

RefineNeg(neg, ext_neg) == neg \cup ext_neg

\* The error of a refine() called in the current state.
RefineErrorNow ==
  RefineError(rel_index,
              RefinePos(positive_descriptors, external_positive_descriptors))

\* Variant: refine leaves the cache of the positive view as it is.
RefineFields_KeepsPosCache(element_probability_map) ==
  /\ results' = Some(element_probability_map)
  /\ rank_contrib_pos' = positive_descriptors
  /\ rank_contrib_pos_ext' = external_positive_descriptors
  /\ rank_contrib_neg' = negative_descriptors
  /\ rank_contrib_neg_ext' = external_negative_descriptors
  /\ _ordered_results' = None
  /\ _ordered_neg' = None
  /\ _ordered_non_adj' = None
  /\ UNCHANGED <<_ordered_pos, ledgerVars, wsVars, archive, config>>

\* The body of the method after its two checks, run under the lock.
RefineFields(element_probability_map) ==
  /\ results' = Some(element_probability_map)
  /\ rank_contrib_pos' = positive_descriptors
  /\ rank_contrib_pos_ext' = external_positive_descriptors
  /\ rank_contrib_neg' = negative_descriptors
  /\ rank_contrib_neg_ext' = external_negative_descriptors
  /\ _ordered_results' = None
  /\ _ordered_pos' = None
  /\ _ordered_neg' = None
  /\ _ordered_non_adj' = None
  /\ UNCHANGED <<ledgerVars, wsVars, archive, config>>

\* A call that raises before it assigns anything.
NoFieldChanges ==
  UNCHANGED <<ledgerVars, contribVars, cacheVars, wsVars, results, archive, config>>

Refine ==
  /\ CanCall
  /\ \E observe \in BOOLEAN :
       IF RefineErrorNow # "none"
       THEN /\ call' = Outcome(observe,
                         [Called("refine") EXCEPT !.err = RefineErrorNow])
            /\ NoFieldChanges
       ELSE \E element_probability_map \in RankOutputs(Val(rel_index).built) :
              /\ RefineFields(element_probability_map)
              /\ call' = Outcome(observe,
                           [Called("refine") EXCEPT
                              !.rank_pos =
                                 RefinePos(positive_descriptors,
                                           external_positive_descriptors),
                              !.rank_neg =
                                 RefineNeg(negative_descriptors,
                                           external_negative_descriptors),
                              !.ret = element_probability_map])
  /\ nops' = nops + 1
  /\ UNCHANGED threadVars

\* ------------------------------------------------------------------------
\* The result views
\* ------------------------------------------------------------------------
\* sorted(..., key=lambda p: p[1], reverse=True): a stable sort, entries of
\* equal score keep the order of the input.
RECURSIVE InsertDesc(_, _)
InsertDesc(sorted, x) ==
  IF sorted = <<>> THEN <<x>>
  ELSE IF Head(sorted)[2] >= x[2]
       THEN <<Head(sorted)>> \o InsertDesc(Tail(sorted), x)
       ELSE <<x>> \o sorted

RECURSIVE SortedDesc(_)
SortedDesc(items) ==
  IF items = <<>> THEN <<>>
  ELSE InsertDesc(SortedDesc(SubSeq(items, 1, Len(items) - 1)),
                  items[Len(items)])

\* list(filter(lambda t: t[0] in keep, ordered))
FilterIn(ordered, keep) == SelectSeq(ordered, LAMBDA t : t[1] \in keep)

\* list(filter(lambda t: t[0] not in drop, ordered))
FilterNotIn(ordered, drop) == SelectSeq(ordered, LAMBDA t : t[1] \notin drop)

\* Variant: the cached list itself is returned.
ReturnedList_Cache(field, cache) == IF IsNone(cache) THEN {} ELSE {field}

\* "return list(r)", "return list(self._ordered_results)": the list returned
\* is a new object, not the one the session keeps in the field.
ReturnedList(field, cache) == {}

\* Variant: the entries are returned in the order of the dict.
OrderedResultsRet_Unsorted(cache, res) ==
  IF ~IsNone(cache) THEN Val(cache)
  ELSE IF IsNone(res) THEN <<>>
  ELSE Val(res)

\* ordered_results(): the list it returns and the cache it leaves.
OrderedResultsRet(cache, res) ==
  IF ~IsNone(cache) THEN Val(cache)
  ELSE IF IsNone(res) THEN <<>>
  ELSE SortedDesc(Val(res))

\* Variant: the empty list returned without results is cached.
OrderedResultsCache_KeepsEmpty(cache, res) ==
  IF ~IsNone(cache) THEN cache
  ELSE IF IsNone(res) THEN Some(<<>>)
  ELSE Some(SortedDesc(Val(res)))

OrderedResultsCache(cache, res) ==
  IF ~IsNone(cache) THEN cache
  ELSE IF IsNone(res) THEN None
  ELSE Some(SortedDesc(Val(res)))

\* Variant: the positive view filters by the ledger as it is when read.
PosFilterSet_Ledger(contrib_pos, contrib_pos_ext) ==
  positive_descriptors \cup external_positive_descriptors

\* Variant: the positive view leaves the external positives out.
PosFilterSet_NoExternal(contrib_pos, contrib_pos_ext) == contrib_pos

\* The sets the positive, negative and non-adjudicated views filter by.
PosFilterSet(contrib_pos, contrib_pos_ext) == contrib_pos \cup contrib_pos_ext

NegFilterSet(contrib_neg, contrib_neg_ext) == contrib_neg \cup contrib_neg_ext

PosAndNeg(contrib_pos, contrib_pos_ext, contrib_neg, contrib_neg_ext) ==
  contrib_pos \cup contrib_pos_ext \cup contrib_neg \cup contrib_neg_ext

\* What the four views return when called in the current state.
AllRet == OrderedResultsRet(_ordered_results, results)

PositiveRet ==
  IF ~IsNone(_ordered_pos) THEN Val(_ordered_pos)
  ELSE FilterIn(OrderedResultsRet(_ordered_results, results),
                PosFilterSet(rank_contrib_pos, rank_contrib_pos_ext))

NegativeRet ==
  IF ~IsNone(_ordered_neg) THEN Val(_ordered_neg)
  ELSE FilterIn(OrderedResultsRet(_ordered_results, results),
                NegFilterSet(rank_contrib_neg, rank_contrib_neg_ext))

UnadjudicatedRet ==
  IF ~IsNone(_ordered_non_adj) THEN Val(_ordered_non_adj)
  ELSE FilterNotIn(OrderedResultsRet(_ordered_results, results),
                   PosAndNeg(rank_contrib_pos, rank_contrib_pos_ext,
                             rank_contrib_neg, rank_contrib_neg_ext))

\* The bodies of the four methods, run under the lock.
OrderedResultsFields ==
  /\ _ordered_results' = OrderedResultsCache(_ordered_results, results)
  /\ UNCHANGED <<ledgerVars, contribVars, _ordered_pos, _ordered_neg,
                 _ordered_non_adj, wsVars, results, archive, config>>

GetPositiveAdjudicationRelevancyFields ==
  /\ IF ~IsNone(_ordered_pos)
     THEN UNCHANGED <<_ordered_pos, _ordered_results>>
     ELSE /\ _ordered_pos' = Some(PositiveRet)
          /\ _ordered_results' = OrderedResultsCache(_ordered_results, results)
  /\ UNCHANGED <<ledgerVars, contribVars, _ordered_neg, _ordered_non_adj,
                 wsVars, results, archive, config>>

GetNegativeAdjudicationRelevancyFields ==
  /\ IF ~IsNone(_ordered_neg)
     THEN UNCHANGED <<_ordered_neg, _ordered_results>>
     ELSE /\ _ordered_neg' = Some(NegativeRet)
          /\ _ordered_results' = OrderedResultsCache(_ordered_results, results)
  /\ UNCHANGED <<ledgerVars, contribVars, _ordered_pos, _ordered_non_adj,
                 wsVars, results, archive, config>>

GetUnadjudicatedRelevancyFields ==
  /\ IF ~IsNone(_ordered_non_adj)
     THEN UNCHANGED <<_ordered_non_adj, _ordered_results>>
     ELSE /\ _ordered_non_adj' = Some(UnadjudicatedRet)
          /\ _ordered_results' = OrderedResultsCache(_ordered_results, results)
  /\ UNCHANGED <<ledgerVars, contribVars, _ordered_pos, _ordered_neg,
                 wsVars, results, archive, config>>

OrderedResults ==
  /\ CanCall
  /\ OrderedResultsFields
  /\ \E observe \in BOOLEAN :
       call' = Outcome(observe,
                       [Called("ordered_results") EXCEPT
                          !.ret = AllRet,
                          !.shared = ReturnedList("_ordered_results",
                                                  _ordered_results')])
  /\ nops' = nops + 1
  /\ UNCHANGED threadVars

GetPositiveAdjudicationRelevancy ==
  /\ CanCall
  /\ GetPositiveAdjudicationRelevancyFields
  /\ \E observe \in BOOLEAN :
       call' = Outcome(observe,
                       [Called("get_positive_adjudication_relevancy") EXCEPT
                          !.ret = PositiveRet,
                          !.shared = ReturnedList("_ordered_pos", _ordered_pos')])
  /\ nops' = nops + 1
  /\ UNCHANGED threadVars

GetNegativeAdjudicationRelevancy ==
  /\ CanCall
  /\ GetNegativeAdjudicationRelevancyFields
  /\ \E observe \in BOOLEAN :
       call' = Outcome(observe,
                       [Called("get_negative_adjudication_relevancy") EXCEPT
                          !.ret = NegativeRet,
                          !.shared = ReturnedList("_ordered_neg", _ordered_neg')])
  /\ nops' = nops + 1
  /\ UNCHANGED threadVars

GetUnadjudicatedRelevancy ==
  /\ CanCall
  /\ GetUnadjudicatedRelevancyFields
  /\ \E observe \in BOOLEAN :
       call' = Outcome(observe,
                       [Called("get_unadjudicated_relevancy") EXCEPT
                          !.ret = UnadjudicatedRet,
                          !.shared = ReturnedList("_ordered_non_adj",
                                                  _ordered_non_adj')])
  /\ nops' = nops + 1
  /\ UNCHANGED threadVars

\* The caller of the observed call empties the list it was given
\* ("del ret[:]"): a field that is the same list object is emptied with it.
Emptied(field, cache) ==
  IF field \in call.shared THEN Some(<<>>) ELSE cache

MutateReturned ==
  /\ call.observed
  /\ ~call.mutated
  /\ call.op \in {"ordered_results", "get_positive_adjudication_relevancy",
                  "get_negative_adjudication_relevancy",
                  "get_unadjudicated_relevancy"}
  /\ call' = [call EXCEPT !.mutated = TRUE]
  /\ _ordered_results' = Emptied("_ordered_results", _ordered_results)
  /\ _ordered_pos' = Emptied("_ordered_pos", _ordered_pos)
  /\ _ordered_neg' = Emptied("_ordered_neg", _ordered_neg)
  /\ _ordered_non_adj' = Emptied("_ordered_non_adj", _ordered_non_adj)
  /\ UNCHANGED <<ledgerVars, contribVars, wsVars, results, archive, config, nops,
                 threadVars>>

\* ------------------------------------------------------------------------
\* reset()
\* ------------------------------------------------------------------------
\* Variant: the seeds already used are not forgotten.
ResetFields_KeepsSeeds ==
  /\ working_set' = {}
  /\ positive_descriptors' = {}
  /\ negative_descriptors' = {}
  /\ external_positive_descriptors' = {}
  /\ external_negative_descriptors' = {}
  /\ rank_contrib_pos' = {}
  /\ rank_contrib_pos_ext' = {}
  /\ rank_contrib_neg' = {}
  /\ rank_contrib_neg_ext' = {}
  /\ rel_index' = None
  /\ results' = None
  /\ _ordered_results' = None
  /\ _ordered_pos' = None
  /\ _ordered_neg' = None
  /\ _ordered_non_adj' = None
  /\ nn_calls' = [d \in Elems |-> 0]
  /\ UNCHANGED <<_wi_seeds_used, rel_index_count, archive, config>>

\* The body of the method, run under the lock.
ResetFields ==
  /\ working_set' = {}
  /\ _wi_seeds_used' = {}
  /\ positive_descriptors' = {}
  /\ negative_descriptors' = {}
  /\ external_positive_descriptors' = {}
  /\ external_negative_descriptors' = {}
  /\ rank_contrib_pos' = {}
  /\ rank_contrib_pos_ext' = {}
  /\ rank_contrib_neg' = {}
  /\ rank_contrib_neg_ext' = {}
  /\ rel_index' = None
  /\ results' = None
  /\ _ordered_results' = None
  /\ _ordered_pos' = None
  /\ _ordered_neg' = None
  /\ _ordered_non_adj' = None
  /\ nn_calls' = [d \in Elems |-> 0]
  /\ UNCHANGED <<rel_index_count, archive, config>>

Reset ==
  /\ CanCall
  /\ \E observe \in BOOLEAN : call' = Outcome(observe, Called("reset"))
  /\ ResetFields
  /\ nops' = nops + 1
  /\ UNCHANGED threadVars

\* ------------------------------------------------------------------------
\* get_state_bytes() and set_state_bytes(b, descriptor_factory)
\* ------------------------------------------------------------------------
STATE_ZIP_FILENAME == "iqr_state.json"

\* d_set_to_list: the (uuid, type, vector) triples of a set of descriptors,
\* listed in the iteration order of the set (ascending uuid here).
RECURSIVE d_set_to_list(_)
d_set_to_list(d_set) ==
  IF d_set = {} THEN <<>>
  ELSE LET d == CHOOSE x \in d_set : \A y \in d_set : uuid(x) <= uuid(y)
       IN <<<<uuid(d), type(d), vector(d)>>>> \o d_set_to_list(d_set \ {d})

\* The four lists made under the lock.
StateLists(pos, neg, ext_pos, ext_neg) ==
  [pos |-> d_set_to_list(pos),
   neg |-> d_set_to_list(neg),
   external_pos |-> d_set_to_list(ext_pos),
   external_neg |-> d_set_to_list(ext_neg)]

NoLists ==
  [pos |-> <<>>, neg |-> <<>>, external_pos |-> <<>>, external_neg |-> <<>>]

\* The zip archive get_state_bytes() writes: one named entry holding the
\* JSON document with the four lists.
StateBytes(lists) == [name |-> STATE_ZIP_FILENAME, state |-> lists]

\* Bytes that are a zip archive without the expected entry.
ForeignBytes == [name |-> "other.json", state |-> NoLists]

\* The bytes a caller can pass to set_state_bytes.
BytesAtHand == {ForeignBytes} \cup {archive[i] : i \in 1..Len(archive)}

\* The whole method: the bytes it returns are kept as the archive at hand.
GetStateBytesFields ==
  /\ archive' = Some(StateBytes(StateLists(positive_descriptors,
                                           negative_descriptors,
                                           external_positive_descriptors,
                                           external_negative_descriptors)))
  /\ UNCHANGED <<ledgerVars, contribVars, cacheVars, wsVars, results, config>>

GetStateBytes ==
  /\ CanCall
  /\ GetStateBytesFields
  /\ \E observe \in BOOLEAN :
       call' = Outcome(observe,
                       [Called("get_state_bytes") EXCEPT !.ret = archive'])
  /\ nops' = nops + 1
  /\ UNCHANGED threadVars

\* descriptor_factory.new_descriptor(type_str, uid): the element of that type
\* and uuid.
new_descriptor(type_str, uid) ==
  CHOOSE d \in Elems : uuid(d) = uid /\ type(d) = type_str

\* What the factory's element holds before load_descriptor looks at it: no
\* vector, the vector of the archive, or another vector.
FactoryStates == [Elems -> {"no_vector", "same_vector", "other_vector"}]

\* The (target, triple) pairs in the order set_state_bytes loads them.
Tagged(target, source) == [i \in 1..Len(source) |-> <<target, source[i]>>]

\* Variant: the adjudicated lists are loaded into each other's set.
LoadOrder_Crossed(state) ==
  Tagged("external_pos", state.external_pos)
    \o Tagged("external_neg", state.external_neg)
    \o Tagged("neg", state.pos)
    \o Tagged("pos", state.neg)

LoadOrder(state) ==
  Tagged("external_pos", state.external_pos)
    \o Tagged("external_neg", state.external_neg)
    \o Tagged("pos", state.pos)
    \o Tagged("neg", state.neg)

\* load_descriptor's assertion fails on this triple.
LoadFails(factory, triple) ==
  factory[new_descriptor(triple[2], triple[1])] = "other_vector"

\* Number of triples loaded before the first failing one.
RECURSIVE LoadedCount(_, _)
LoadedCount(factory, loads) ==
  IF loads = <<>> \/ LoadFails(factory, Head(loads)[2]) THEN 0
  ELSE 1 + LoadedCount(factory, Tail(loads))

\* The elements added to one target set by the first n loads.
LoadedInto(target, loads, n) ==
  {new_descriptor(loads[i][2][2], loads[i][2][1]) :
     i \in {j \in 1..n : loads[j][1] = target}}

\* The error set_state_bytes raises, "none" when it goes through.
SetStateBytesError(b, factory) ==
  IF b.name # STATE_ZIP_FILENAME THEN "InvalidStateArchive"
  ELSE IF LoadedCount(factory, LoadOrder(b.state)) < Len(LoadOrder(b.state))
       THEN "VectorMismatch"
  ELSE "none"

\* The with-block of the method: reset(), then the loads up to the first
\* one that fails.
SetStateBytesFields(b, factory) ==
  LET loads == LoadOrder(b.state)
      n == LoadedCount(factory, loads)
  IN /\ working_set' = {}
     /\ _wi_seeds_used' = {}
     /\ rank_contrib_pos' = {}
     /\ rank_contrib_pos_ext' = {}
     /\ rank_contrib_neg' = {}
     /\ rank_contrib_neg_ext' = {}
     /\ rel_index' = None
     /\ results' = None
     /\ _ordered_results' = None
     /\ _ordered_pos' = None
     /\ _ordered_neg' = None
     /\ _ordered_non_adj' = None
     /\ nn_calls' = [d \in Elems |-> 0]
     /\ external_positive_descriptors' = LoadedInto("external_pos", loads, n)
     /\ external_negative_descriptors' = LoadedInto("external_neg", loads, n)
     /\ positive_descriptors' = LoadedInto("pos", loads, n)
     /\ negative_descriptors' = LoadedInto("neg", loads, n)
     /\ UNCHANGED <<rel_index_count, archive, config>>

SetStateBytes ==
  /\ CanCall
  /\ \E observe \in BOOLEAN, b \in BytesAtHand, factory \in FactoryStates :
       /\ IF b.name # STATE_ZIP_FILENAME
          THEN NoFieldChanges
          ELSE SetStateBytesFields(b, factory)
       /\ call' = Outcome(observe,
                          [Called("set_state_bytes") EXCEPT
                             !.err = SetStateBytesError(b, factory),
                             !.ret = Some(b)])
  /\ nops' = nops + 1
  /\ UNCHANGED threadVars

Next ==
  \/ ExternalDescriptors
  \/ Adjudicate
  \/ UpdateWorkingSet
  \/ Refine
  \/ OrderedResults
  \/ GetPositiveAdjudicationRelevancy
  \/ GetNegativeAdjudicationRelevancy
  \/ GetUnadjudicatedRelevancy
  \/ MutateReturned
  \/ Reset
  \/ GetStateBytes
  \/ SetStateBytes

Spec == Init /\ [][Next]_vars

\* ------------------------------------------------------------------------
\* Longer behaviours: calls made one after the other, none of them observed
\* ------------------------------------------------------------------------
\* A call can be made, and has been made.
MoreCalls == nops < MaxCalls

Counted == nops' = nops + 1 /\ UNCHANGED <<call, threadVars>>

CallExternalDescriptors ==
  /\ MoreCalls
  /\ \E positive \in SUBSET Elems, negative \in SUBSET Elems :
       ExternalDescriptorsFields(positive, negative)
  /\ Counted

CallAdjudicate ==
  /\ MoreCalls
  /\ \E new_positives \in SUBSET Elems, new_negatives \in SUBSET Elems,
        un_positives \in SUBSET Elems, un_negatives \in SUBSET Elems :
       AdjudicateFields(new_positives, new_negatives,
                        un_positives, un_negatives)
  /\ Counted

CallUpdateWorkingSet ==
  /\ MoreCalls
  /\ LET pos_examples == PosExamples(external_positive_descriptors,
                                     positive_descriptors)
         seeds == NewSeeds(pos_examples, _wi_seeds_used)
     IN IF UpdateWorkingSetError(pos_examples) # "none"
        THEN NoFieldChanges
        ELSE \E nn \in [seeds -> NeighborSets] :
               UpdateWorkingSetFields(seeds, nn)
  /\ Counted

CallRefine ==
  /\ MoreCalls
  /\ IF RefineErrorNow # "none"
     THEN NoFieldChanges
     ELSE \E element_probability_map \in RankOutputs(Val(rel_index).built) :
            RefineFields(element_probability_map)
  /\ Counted

CallOrderedResults ==
  /\ MoreCalls
  /\ OrderedResultsFields
  /\ Counted

CallGetPositiveAdjudicationRelevancy ==
  /\ MoreCalls
  /\ GetPositiveAdjudicationRelevancyFields
  /\ Counted

CallGetNegativeAdjudicationRelevancy ==
  /\ MoreCalls
  /\ GetNegativeAdjudicationRelevancyFields
  /\ Counted

CallGetUnadjudicatedRelevancy ==
  /\ MoreCalls
  /\ GetUnadjudicatedRelevancyFields
  /\ Counted

CallReset ==
  /\ MoreCalls
  /\ ResetFields
  /\ Counted

CallGetStateBytes ==
  /\ MoreCalls
  /\ GetStateBytesFields
  /\ Counted

CallSetStateBytes ==
  /\ MoreCalls
  /\ \E b \in BytesAtHand, factory \in FactoryStates :
       IF b.name # STATE_ZIP_FILENAME
       THEN NoFieldChanges
       ELSE SetStateBytesFields(b, factory)
  /\ Counted

CallsNext ==
  \/ CallExternalDescriptors
  \/ CallAdjudicate
  \/ CallUpdateWorkingSet
  \/ CallRefine
  \/ CallOrderedResults
  \/ CallGetPositiveAdjudicationRelevancy
  \/ CallGetNegativeAdjudicationRelevancy
  \/ CallGetUnadjudicatedRelevancy
  \/ CallReset
  \/ CallGetStateBytes
  \/ CallSetStateBytes

CallsSpec == Init /\ [][CallsNext]_vars

\* ------------------------------------------------------------------------
\* Sessions of any pos_seed_neighbors, with a neighbor index that returns
\* the number of neighbors asked for
\* ------------------------------------------------------------------------
\* nn_index.nn(p, n)[0] of an index that returns n neighbors: n distinct
\* elements.
ContractNeighborSets ==
  {S \in SUBSET Elems : Cardinality(S) = config.pos_seed_neighbors}

\* __init__ called with pos_seed_neighbors = n, for each n up to the bound.
FanoutInit ==
  /\ working_set = {}
  /\ _wi_seeds_used = {}
  /\ external_positive_descriptors = {}
  /\ external_negative_descriptors = {}
  /\ positive_descriptors = {}
  /\ negative_descriptors = {}
  /\ rank_contrib_pos = {}
  /\ rank_contrib_pos_ext = {}
  /\ rank_contrib_neg = {}
  /\ rank_contrib_neg_ext = {}
  /\ results = None
  /\ _ordered_results = None
  /\ _ordered_pos = None
  /\ _ordered_neg = None
  /\ _ordered_non_adj = None
  /\ rel_index = None
  /\ config \in {[ConstructorArguments EXCEPT !.pos_seed_neighbors = n] :
                    n \in 1..pos_seed_neighbors}
  /\ archive = None
  /\ nn_calls = [d \in Elems |-> 0]
  /\ rel_index_count = 0
  /\ call = NoCall
  /\ nops = 0
  /\ lock = [owner |-> 0, count |-> 0]
  /\ pc = [t \in Threads |-> "idle"]
  /\ local = [t \in Threads |-> NoLocals]

FanoutUpdateWorkingSet ==
  /\ MoreCalls
  /\ LET pos_examples == PosExamples(external_positive_descriptors,
                                     positive_descriptors)
         seeds == NewSeeds(pos_examples, _wi_seeds_used)
     IN IF UpdateWorkingSetError(pos_examples) # "none"
        THEN NoFieldChanges
        ELSE \E nn \in [seeds -> ContractNeighborSets] :
               UpdateWorkingSetFields(seeds, nn)
  /\ Counted

FanoutNext ==
  \/ CallExternalDescriptors
  \/ CallAdjudicate
  \/ FanoutUpdateWorkingSet
  \/ CallRefine
  \/ CallOrderedResults
  \/ CallGetPositiveAdjudicationRelevancy
  \/ CallGetNegativeAdjudicationRelevancy
  \/ CallGetUnadjudicatedRelevancy
  \/ CallReset
  \/ CallGetStateBytes
  \/ CallSetStateBytes

FanoutSpec == FanoutInit /\ [][FanoutNext]_vars

\* ------------------------------------------------------------------------
\* Threads: the methods as the steps of concurrent callers
\* ------------------------------------------------------------------------
\* self.lock is a threading.RLock: free, or owned by one thread that may
\* acquire it again.
\* Variant: the lock is a threading.Lock, which its owner cannot take again.
CanAcquire_NotReentrant(t) == lock.owner = 0

CanAcquire(t) == lock.owner = 0 \/ lock.owner = t

Acquired(t) == [owner |-> t, count |-> lock.count + 1]

Released(t) ==
  IF lock.count = 1 THEN [owner |-> 0, count |-> 0]
  ELSE [owner |-> t, count |-> lock.count - 1]

CanStart(t) == pc[t] = "idle" /\ nops < MaxThreadOps

\* How often a thread holds the lock.
Holds(t) == IF lock.owner = t THEN lock.count ELSE 0

\* The local variables of a thread that makes a call.
Calling(t) == [local[t] EXCEPT !.held = Holds(t), !.err = ""]

\* The local variables of a thread once its method has returned ("none") or
\* raised.
Returned(t, held, err) ==
  [NoLocals EXCEPT !.withs = local[t].withs, !.held = held, !.err = err]

\* Variant: an exception leaves the with-block without releasing the lock.
ReturnUnlocking_ExceptOnError(t, err) ==
  /\ lock.owner = t
  /\ lock' = IF err = "none" THEN Released(t) ELSE lock
  /\ pc' = [pc EXCEPT ![t] = "idle"]
  /\ local' = [local EXCEPT ![t] = Returned(t, local[t].held, err)]
  /\ UNCHANGED <<call, nops>>

\* The thread leaves the with-block of the method it was in, by its end or
\* by the exception raised in it.
ReturnUnlocking(t, err) ==
  /\ lock.owner = t
  /\ lock' = Released(t)
  /\ pc' = [pc EXCEPT ![t] = "idle"]
  /\ local' = [local EXCEPT ![t] = Returned(t, local[t].held, err)]
  /\ UNCHANGED <<call, nops>>

\* __enter__ and __exit__: a with-block on the session.
Enter(t) ==
  /\ pc[t] = "idle"
  /\ local[t].withs < MaxWiths
  /\ CanAcquire(t)
  /\ lock' = Acquired(t)
  /\ local' = [local EXCEPT ![t] = [NoLocals EXCEPT !.withs =
                                                  local[t].withs + 1]]
  /\ NoFieldChanges
  /\ UNCHANGED <<call, nops, pc>>

Exit(t) ==
  /\ pc[t] = "idle"
  /\ local[t].withs > 0
  /\ lock' = Released(t)
  /\ local' = [local EXCEPT ![t] = [NoLocals EXCEPT !.withs =
                                                  local[t].withs - 1]]
  /\ NoFieldChanges
  /\ UNCHANGED <<call, nops, pc>>

\* The methods whose body is one "with self.lock:" (or "with self:") block.
LockedMethods ==
  {"external_descriptors", "adjudicate", "refine", "ordered_results",
   "get_positive_adjudication_relevancy",
   "get_negative_adjudication_relevancy", "get_unadjudicated_relevancy",
   "reset", "get_state_bytes"}

\* A thread calls one of these methods and gets the lock.
Lock(t) ==
  /\ CanStart(t)
  /\ CanAcquire(t)
  /\ \E m \in LockedMethods : pc' = [pc EXCEPT ![t] = m]
  /\ lock' = Acquired(t)
  /\ local' = [local EXCEPT ![t] = Calling(t)]
  /\ nops' = nops + 1
  /\ NoFieldChanges
  /\ UNCHANGED call

ThreadExternalDescriptors(t) ==
  /\ pc[t] = "external_descriptors"
  /\ \E positive \in SUBSET Elems, negative \in SUBSET Elems :
       ExternalDescriptorsFields(positive, negative)
  /\ ReturnUnlocking(t, "none")

ThreadAdjudicate(t) ==
  /\ pc[t] = "adjudicate"
  /\ \E new_positives \in SUBSET Elems, new_negatives \in SUBSET Elems,
        un_positives \in SUBSET Elems, un_negatives \in SUBSET Elems :
       AdjudicateFields(new_positives, new_negatives,
                        un_positives, un_negatives)
  /\ ReturnUnlocking(t, "none")

ThreadRefine(t) ==
  /\ pc[t] = "refine"
  /\ IF RefineErrorNow # "none"
     THEN NoFieldChanges
     ELSE \E element_probability_map \in RankOutputs(Val(rel_index).built) :
            RefineFields(element_probability_map)
  /\ ReturnUnlocking(t, RefineErrorNow)

ThreadOrderedResults(t) ==
  /\ pc[t] = "ordered_results"
  /\ OrderedResultsFields
  /\ ReturnUnlocking(t, "none")

\* The three filtered views call self.ordered_results() inside their
\* with-block when they have no cache: the thread takes the lock once more
\* and gives that hold back before the view returns.
ThreadGetPositiveAdjudicationRelevancy(t) ==
  /\ pc[t] = "get_positive_adjudication_relevancy"
  /\ IsNone(_ordered_pos) => CanAcquire(t)
  /\ GetPositiveAdjudicationRelevancyFields
  /\ ReturnUnlocking(t, "none")

ThreadGetNegativeAdjudicationRelevancy(t) ==
  /\ pc[t] = "get_negative_adjudication_relevancy"
  /\ IsNone(_ordered_neg) => CanAcquire(t)
  /\ GetNegativeAdjudicationRelevancyFields
  /\ ReturnUnlocking(t, "none")

ThreadGetUnadjudicatedRelevancy(t) ==
  /\ pc[t] = "get_unadjudicated_relevancy"
  /\ IsNone(_ordered_non_adj) => CanAcquire(t)
  /\ GetUnadjudicatedRelevancyFields
  /\ ReturnUnlocking(t, "none")

ThreadReset(t) ==
  /\ pc[t] = "reset"
  /\ ResetFields
  /\ ReturnUnlocking(t, "none")

\* get_state_bytes: the four lists are made inside the with-block, the
\* archive is written after it.
ThreadGetStateBytesLists(t) ==
  /\ pc[t] = "get_state_bytes"
  /\ lock.owner = t
  /\ local' = [local EXCEPT ![t].lists =
                 Some(StateLists(positive_descriptors, negative_descriptors,
                                 external_positive_descriptors,
                                 external_negative_descriptors))]
  /\ lock' = Released(t)
  /\ pc' = [pc EXCEPT ![t] = "get_state_bytes_zip"]
  /\ NoFieldChanges
  /\ UNCHANGED <<call, nops>>

\* Variant: the list of positives is made after the with-block.
ThreadGetStateBytesZip_PosOutside(t) ==
  /\ pc[t] = "get_state_bytes_zip"
  /\ archive' = Some(StateBytes([Val(local[t].lists) EXCEPT
                                   !.pos = d_set_to_list(positive_descriptors)]))
  /\ pc' = [pc EXCEPT ![t] = "idle"]
  /\ local' = [local EXCEPT ![t] = Returned(t, local[t].held, "none")]
  /\ UNCHANGED <<ledgerVars, contribVars, cacheVars, wsVars, results,
                 config, call, nops, lock>>

ThreadGetStateBytesZip(t) ==
  /\ pc[t] = "get_state_bytes_zip"
  /\ archive' = Some(StateBytes(Val(local[t].lists)))
  /\ pc' = [pc EXCEPT ![t] = "idle"]
  /\ local' = [local EXCEPT ![t] = Returned(t, local[t].held, "none")]
  /\ UNCHANGED <<ledgerVars, contribVars, cacheVars, wsVars, results,
                 config, call, nops, lock>>

\* set_state_bytes: the archive is opened and read before the with-block;
\* bytes without the expected entry make it raise there.
ThreadSetStateBytesRead(t) ==
  /\ CanStart(t)
  /\ \E b \in BytesAtHand :
       IF b.name # STATE_ZIP_FILENAME
       THEN /\ local' = [local EXCEPT ![t] =
                           Returned(t, Holds(t), "InvalidStateArchive")]
            /\ UNCHANGED <<pc, lock>>
       ELSE /\ CanAcquire(t)
            /\ lock' = Acquired(t)
            /\ pc' = [pc EXCEPT ![t] = "set_state_bytes"]
            /\ local' = [local EXCEPT ![t] =
                           [Calling(t) EXCEPT !.b = Some(b)]]
  /\ nops' = nops + 1
  /\ NoFieldChanges
  /\ UNCHANGED call

\* Inside its "with self:" block the method calls self.reset(), which takes
\* the lock once more.
ThreadSetStateBytesLoad(t) ==
  /\ pc[t] = "set_state_bytes"
  /\ CanAcquire(t)
  /\ \E factory \in FactoryStates :
       /\ SetStateBytesFields(Val(local[t].b), factory)
       /\ ReturnUnlocking(t, SetStateBytesError(Val(local[t].b), factory))

\* update_working_set: no with-block; the statements of its loop are steps
\* of their own.
ThreadUpdateWorkingSetStart(t) ==
  /\ CanStart(t)
  /\ LET pos_examples == PosExamples(external_positive_descriptors,
                                     positive_descriptors)
     IN IF UpdateWorkingSetError(pos_examples) # "none"
        THEN /\ local' = [local EXCEPT ![t] =
                            Returned(t, Holds(t),
                                     UpdateWorkingSetError(pos_examples))]
             /\ UNCHANGED pc
        ELSE /\ pc' = [pc EXCEPT ![t] = "update_working_set_for"]
             /\ local' = [local EXCEPT ![t] =
                            [Calling(t) EXCEPT !.todo = pos_examples,
                                               !.updated = FALSE]]
  /\ nops' = nops + 1
  /\ NoFieldChanges
  /\ UNCHANGED <<call, lock>>

\* "for p in pos_examples: if p.uuid() not in self._wi_seeds_used:"
ThreadUpdateWorkingSetFor(t) ==
  /\ pc[t] = "update_working_set_for"
  /\ \E p \in local[t].todo :
       /\ local' = [local EXCEPT ![t].todo = @ \ {p}, ![t].p = p]
       /\ pc' = [pc EXCEPT ![t] =
                   IF NewSeeds({p}, _wi_seeds_used) # {}
                   THEN "update_working_set_nn"
                   ELSE "update_working_set_for"]
  /\ NoFieldChanges
  /\ UNCHANGED <<call, nops, lock>>

\* "self.working_set.add_many_descriptors(nn_index.nn(p, n=...)[0])"
ThreadUpdateWorkingSetNn(t) ==
  /\ pc[t] = "update_working_set_nn"
  /\ \E neighbors \in NeighborSets :
       working_set' = working_set \cup neighbors
  /\ nn_calls' = [nn_calls EXCEPT ![local[t].p] = @ + 1]
  /\ pc' = [pc EXCEPT ![t] = "update_working_set_used"]
  /\ UNCHANGED <<ledgerVars, contribVars, cacheVars, results, archive, config,
                 _wi_seeds_used, rel_index, rel_index_count,
                 call, nops, lock, local>>

\* "self._wi_seeds_used.add(p.uuid()); updated = True"
ThreadUpdateWorkingSetUsed(t) ==
  /\ pc[t] = "update_working_set_used"
  /\ _wi_seeds_used' = _wi_seeds_used \cup {uuid(local[t].p)}
  /\ local' = [local EXCEPT ![t].updated = TRUE]
  /\ pc' = [pc EXCEPT ![t] = "update_working_set_for"]
  /\ UNCHANGED <<ledgerVars, contribVars, cacheVars, results, archive, config,
                 working_set, nn_calls, rel_index, rel_index_count,
                 call, nops, lock>>

\* "if updated: self.rel_index = ...; self.rel_index.build_index(...)"
ThreadUpdateWorkingSetBuild(t) ==
  /\ pc[t] = "update_working_set_for"
  /\ local[t].todo = {}
  /\ rel_index' = RebuiltIndex(local[t].updated, rel_index,
                               rel_index_count + 1, working_set)
  /\ rel_index_count' = IF local[t].updated THEN rel_index_count + 1
                                            ELSE rel_index_count
  /\ pc' = [pc EXCEPT ![t] = "idle"]
  /\ local' = [local EXCEPT ![t] = Returned(t, local[t].held, "none")]
  /\ UNCHANGED <<ledgerVars, contribVars, cacheVars, results, archive, config,
                 working_set, _wi_seeds_used, nn_calls, call, nops, lock>>

ThreadNext ==
  \E t \in Threads :
    \/ Enter(t)
    \/ Exit(t)
    \/ Lock(t)
    \/ ThreadExternalDescriptors(t)
    \/ ThreadAdjudicate(t)
    \/ ThreadRefine(t)
    \/ ThreadOrderedResults(t)
    \/ ThreadGetPositiveAdjudicationRelevancy(t)
    \/ ThreadGetNegativeAdjudicationRelevancy(t)
    \/ ThreadGetUnadjudicatedRelevancy(t)
    \/ ThreadReset(t)
    \/ ThreadGetStateBytesLists(t)
    \/ ThreadGetStateBytesZip(t)
    \/ ThreadSetStateBytesRead(t)
    \/ ThreadSetStateBytesLoad(t)
    \/ ThreadUpdateWorkingSetStart(t)
    \/ ThreadUpdateWorkingSetFor(t)
    \/ ThreadUpdateWorkingSetNn(t)
    \/ ThreadUpdateWorkingSetUsed(t)
    \/ ThreadUpdateWorkingSetBuild(t)

ThreadSpec == Init /\ [][ThreadNext]_vars

\* The steps that take a thread on in the method it is inside.
ThreadStep(t) ==
  \/ ThreadExternalDescriptors(t)
  \/ ThreadAdjudicate(t)
  \/ ThreadRefine(t)
  \/ ThreadOrderedResults(t)
  \/ ThreadGetPositiveAdjudicationRelevancy(t)
  \/ ThreadGetNegativeAdjudicationRelevancy(t)
  \/ ThreadGetUnadjudicatedRelevancy(t)
  \/ ThreadReset(t)
  \/ ThreadGetStateBytesLists(t)
  \/ ThreadGetStateBytesZip(t)
  \/ ThreadSetStateBytesLoad(t)
  \/ ThreadUpdateWorkingSetFor(t)
  \/ ThreadUpdateWorkingSetNn(t)
  \/ ThreadUpdateWorkingSetUsed(t)
  \/ ThreadUpdateWorkingSetBuild(t)

\* ------------------------------------------------------------------------
\* Properties
\* ------------------------------------------------------------------------
\* The elements listed by a view.
ElemsOf(view) == {view[i][1] : i \in 1..Len(view)}

\* C1: in every reachable state the positive and the negative adjudications
\* are disjoint, and so are the external positives and external negatives.
C1_LedgerDisjoint ==
  /\ positive_descriptors \cap negative_descriptors = {}
  /\ external_positive_descriptors \cap external_negative_descriptors = {}

\* An adjudicate call whose arguments overlap each other and the current sets.
C1_Witness ==
  /\ call.op = "adjudicate"
  /\ call.new_positives \cap call.new_negatives # {}
  /\ call.new_positives \cap call.pre.negative_descriptors # {}
  /\ call.new_negatives \cap call.pre.positive_descriptors # {}
  /\ positive_descriptors # {}

\* C2: adjudicate leaves in positive exactly the elements that were positive
\* or are new positives and are neither un-positives nor new negatives, and
\* symmetrically for negative; an element given as new positive and as new
\* negative ends in neither set.
C2_AdjudicateSets ==
  call.op = "adjudicate" =>
    /\ positive_descriptors =
         {x \in Elems :
            /\ x \in call.pre.positive_descriptors \/ x \in call.new_positives
            /\ x \notin call.un_positives
            /\ x \notin call.new_negatives}
    /\ negative_descriptors =
         {x \in Elems :
            /\ x \in call.pre.negative_descriptors \/ x \in call.new_negatives
            /\ x \notin call.un_negatives
            /\ x \notin call.new_positives}
    /\ \A x \in call.new_positives \cap call.new_negatives :
         x \notin positive_descriptors \cup negative_descriptors

\* An element that was positive is given as new positive and new negative.
C2_Witness ==
  /\ call.op = "adjudicate"
  /\ \E x \in call.new_positives \cap call.new_negatives :
       /\ x \in call.pre.positive_descriptors
       /\ x \notin positive_descriptors \cup negative_descriptors

\* C3: once refine() has succeeded, the positive, negative and non-adjudicated
\* views list pairwise disjoint sets of elements whose union is the set of
\* elements of the view of all results.
C3_ViewsPartition ==
  ~IsNone(results) =>
    /\ ElemsOf(PositiveRet) \cap ElemsOf(NegativeRet) = {}
    /\ ElemsOf(PositiveRet) \cap ElemsOf(UnadjudicatedRet) = {}
    /\ ElemsOf(NegativeRet) \cap ElemsOf(UnadjudicatedRet) = {}
    /\ ElemsOf(PositiveRet) \cup ElemsOf(NegativeRet)
         \cup ElemsOf(UnadjudicatedRet) = ElemsOf(AllRet)

\* C5: between two resets the neighbor index is queried at most once for each
\* seed, and the seeds marked as used are exactly the ones queried.
C5_SeedsQueriedOnce ==
  /\ \A d \in Elems : nn_calls[d] <= 1
  /\ _wi_seeds_used = {uuid(d) : d \in {e \in Elems : nn_calls[e] > 0}}

\* A used seed that is both positive and external positive meets another
\* update_working_set, which does not query it again.
C5_Witness ==
  /\ call.op = "update_working_set"
  /\ call.err = "none"
  /\ call.queried = {}
  /\ \E d \in positive_descriptors \cap external_positive_descriptors :
       nn_calls[d] = 1

\* The positive examples of a state not yet used as seeds.
UnusedSeeds(f) ==
  {p \in f.positive_descriptors \cup f.external_positive_descriptors :
     uuid(p) \notin f._wi_seeds_used}

\* C6: update_working_set replaces the relevancy index exactly when it
\* processed an unused seed, and then builds it over the whole working set as
\* left by the call; with positive examples but no unused seed it queries
\* nothing and leaves working set, used seeds and index as they were.
C6_RebuildIffNewSeed ==
  (call.op = "update_working_set" /\ call.err = "none") =>
    /\ call.queried = UnusedSeeds(call.pre)
    /\ (rel_index # call.pre.rel_index) <=> (UnusedSeeds(call.pre) # {})
    /\ UnusedSeeds(call.pre) # {} =>
         /\ ~IsNone(rel_index)
         /\ Val(rel_index).built = working_set
    /\ UnusedSeeds(call.pre) = {} =>
         /\ working_set = call.pre.working_set
         /\ _wi_seeds_used = call.pre._wi_seeds_used
         /\ nn_calls = call.pre.nn_calls

\* update_working_set with positive examples that were all used already.
C6_Witness ==
  /\ call.op = "update_working_set"
  /\ call.err = "none"
  /\ call.pre.positive_descriptors \cup call.pre.external_positive_descriptors
       # {}
  /\ UnusedSeeds(call.pre) = {}
  /\ ~IsNone(rel_index)
  /\ working_set # {}

\* C7: update_working_set without any positive example fails with
\* NoPositiveExamples, queries nothing and changes no field.
C7_NoPositiveExamples ==
  (/\ call.op = "update_working_set"
   /\ call.pre.positive_descriptors \cup call.pre.external_positive_descriptors
        = {}) =>
    /\ call.err = "NoPositiveExamples"
    /\ call.queried = {}
    /\ Fields = call.pre

\* The failing call on a session that has a working set and an index.
C7_Witness ==
  /\ call.op = "update_working_set"
  /\ call.err = "NoPositiveExamples"
  /\ working_set # {}
  /\ ~IsNone(rel_index)

\* C8: refine fails with NotInitialized whenever there is no relevancy index,
\* with NoPositiveAdjudications when there is one but no positive example,
\* and a failing refine leaves scores, rank snapshots and view caches alone.
C8_RefineErrors ==
  call.op = "refine" =>
    /\ IsNone(call.pre.rel_index) => call.err = "NotInitialized"
    /\ (/\ ~IsNone(call.pre.rel_index)
        /\ call.pre.positive_descriptors
             \cup call.pre.external_positive_descriptors = {}) =>
         call.err = "NoPositiveAdjudications"
    /\ call.err # "none" =>
         /\ results = call.pre.results
         /\ rank_contrib_pos = call.pre.rank_contrib_pos
         /\ rank_contrib_pos_ext = call.pre.rank_contrib_pos_ext
         /\ rank_contrib_neg = call.pre.rank_contrib_neg
         /\ rank_contrib_neg_ext = call.pre.rank_contrib_neg_ext
         /\ _ordered_results = call.pre._ordered_results
         /\ _ordered_pos = call.pre._ordered_pos
         /\ _ordered_neg = call.pre._ordered_neg
         /\ _ordered_non_adj = call.pre._ordered_non_adj

\* All positives were un-adjudicated after the working set was built.
C8_Witness ==
  /\ call.op = "refine"
  /\ call.err = "NoPositiveAdjudications"
  /\ ~IsNone(rel_index)
  /\ _wi_seeds_used # {}

\* C9: a refine that goes through ranks with the positives and external
\* positives against the negatives and external negatives, stores the
\* returned mapping as the results, copies the four adjudication sets into
\* the rank snapshots and empties the four view caches.
C9_RefineEffect ==
  (call.op = "refine" /\ call.err = "none") =>
    /\ call.rank_pos = call.pre.positive_descriptors
                         \cup call.pre.external_positive_descriptors
    /\ call.rank_neg = call.pre.negative_descriptors
                         \cup call.pre.external_negative_descriptors
    /\ results = Some(call.ret)
    /\ rank_contrib_pos = positive_descriptors
    /\ rank_contrib_pos_ext = external_positive_descriptors
    /\ rank_contrib_neg = negative_descriptors
    /\ rank_contrib_neg_ext = external_negative_descriptors
    /\ <<positive_descriptors, external_positive_descriptors,
         negative_descriptors, external_negative_descriptors>>
         = <<call.pre.positive_descriptors,
             call.pre.external_positive_descriptors,
             call.pre.negative_descriptors,
             call.pre.external_negative_descriptors>>
    /\ IsNone(_ordered_results)
    /\ IsNone(_ordered_pos)
    /\ IsNone(_ordered_neg)
    /\ IsNone(_ordered_non_adj)

\* A refine with external negatives to rank against, on a session holding a
\* cached view.
C9_Witness ==
  /\ call.op = "refine"
  /\ call.err = "none"
  /\ external_negative_descriptors # {}
  /\ ~IsNone(call.pre._ordered_neg)
  /\ call.ret # <<>>

\* C10: adjudicate resets the positive cache exactly when positive changed,
\* the negative cache exactly when negative changed, the non-adjudicated
\* cache exactly when either changed, and never the cache of all results; a
\* cache that is not reset keeps its value.  external_descriptors leaves the
\* four caches, the results and the rank snapshots alone.
C10_CacheInvalidation ==
  /\ call.op = "adjudicate" =>
       LET pos_changed == positive_descriptors # call.pre.positive_descriptors
           neg_changed == negative_descriptors # call.pre.negative_descriptors
       IN /\ _ordered_pos =
               IF pos_changed THEN None ELSE call.pre._ordered_pos
          /\ _ordered_neg =
               IF neg_changed THEN None ELSE call.pre._ordered_neg
          /\ _ordered_non_adj =
               IF pos_changed \/ neg_changed THEN None
               ELSE call.pre._ordered_non_adj
          /\ _ordered_results = call.pre._ordered_results
  /\ call.op = "external_descriptors" =>
       /\ _ordered_results = call.pre._ordered_results
       /\ _ordered_pos = call.pre._ordered_pos
       /\ _ordered_neg = call.pre._ordered_neg
       /\ _ordered_non_adj = call.pre._ordered_non_adj
       /\ results = call.pre.results
       /\ rank_contrib_pos = call.pre.rank_contrib_pos
       /\ rank_contrib_pos_ext = call.pre.rank_contrib_pos_ext
       /\ rank_contrib_neg = call.pre.rank_contrib_neg
       /\ rank_contrib_neg_ext = call.pre.rank_contrib_neg_ext

\* An adjudicate call that changes positive only, on a session whose three
\* filtered views are cached: two caches are reset, the negative one is kept.
C10_Witness ==
  /\ call.op = "adjudicate"
  /\ positive_descriptors # call.pre.positive_descriptors
  /\ negative_descriptors = call.pre.negative_descriptors
  /\ ~IsNone(call.pre._ordered_pos)
  /\ ~IsNone(call.pre._ordered_non_adj)
  /\ ~IsNone(_ordered_neg)
  /\ IsNone(_ordered_pos)
  /\ IsNone(_ordered_non_adj)

\* A thread is inside an operation that reads or writes the session: it has
\* called a method and not returned, the unlocked writing of the archive by
\* get_state_bytes apart.
InOperation(t) == pc[t] \notin {"idle", "get_state_bytes_zip"}

\* C4: every mutating operation and every view read holds the lock for its
\* full duration, so no step of another thread changes the session while a
\* thread is between the first and the last state access of its operation:
\* a step that leaves a thread inside its operation where it was leaves the
\* session's fields as they were.
C4_OperationsAtomic ==
  [][\A t \in Threads :
       (InOperation(t) /\ pc'[t] = pc[t] /\ local'[t] = local[t])
         => UNCHANGED sessionVars]_vars

\* The entries of a list, as a set.
Entries(view) == {view[i] : i \in 1..Len(view)}

\* s can be obtained from t by deleting entries.
RECURSIVE IsSubsequence(_, _)
IsSubsequence(s, t) ==
  IF s = <<>> THEN TRUE
  ELSE IF t = <<>> THEN FALSE
  ELSE IF Head(s) = Head(t) THEN IsSubsequence(Tail(s), Tail(t))
  ELSE IsSubsequence(s, Tail(t))

\* view holds exactly the entries of all whose element is in keep, in the
\* order they have in all.
IsFilterOf(view, all, keep) ==
  /\ Entries(view) = {e \in Entries(all) : e[1] \in keep}
  /\ IsSubsequence(view, all)

C12_ViewsWithoutExternal ==
  /\ ElemsOf(PositiveRet) \cap (rank_contrib_pos_ext \ rank_contrib_pos) = {}
  /\ ElemsOf(NegativeRet) \cap (rank_contrib_neg_ext \ rank_contrib_neg) = {}

\* C13: when there are results, ordered_results() returns exactly one
\* (element, score) pair for each entry of the results, ordered non-increasing
\* by score; the list returned is a copy: after the caller has modified it, a
\* later ordered_results() returns what the call returned.
C13_OrderedAll ==
  (call.op = "ordered_results" /\ ~IsNone(call.pre.results)) =>
    /\ Len(call.ret) = Len(Val(call.pre.results))
    /\ Entries(call.ret) = Entries(Val(call.pre.results))
    /\ \A i, j \in 1..Len(call.ret) : i < j => call.ret[i][2] >= call.ret[j][2]
    /\ call.mutated => AllRet = call.ret

\* ordered_results() on two results the ranker gave in another order than by
\* score, and the caller has emptied the list it got.
C13_Witness ==
  /\ call.op = "ordered_results"
  /\ ~IsNone(call.pre.results)
  /\ Len(call.ret) = 2
  /\ call.ret # Val(call.pre.results)
  /\ call.mutated

\* What the four views return when read in the current state.
Views == <<AllRet, PositiveRet, NegativeRet, UnadjudicatedRet>>

\* C14: from a successful refine to the next refine, reset or import, each
\* of the four views returns the same sequence whenever it is read: no
\* adjudicate, external_descriptors, update_working_set or view read changes
\* what any view returns: once there are results, a call after which a
\* view returns another sequence is a refine, a reset or an import.
C14_ViewsStable ==
  [][(~IsNone(results) /\ Views' # Views)
       => (CallRefine \/ CallReset \/ CallSetStateBytes)]_vars

\* The positive view has been read and cached, and lists an element that is
\* no longer a positive in the ledger.
C14_Witness ==
  /\ ~IsNone(results)
  /\ ~IsNone(_ordered_pos)
  /\ ~IsNone(_ordered_results)
  /\ ElemsOf(PositiveRet) # {}
  /\ ElemsOf(PositiveRet)
       \cap (positive_descriptors \cup external_positive_descriptors) = {}

\* C15: from any state, reset() leaves the four adjudication sets, the
\* working set, the seeds used and the four rank snapshots empty, and the
\* results, the relevancy index and the four cached views None, while uuid,
\* pos_seed_neighbors and rel_index_config keep the values they had.
C15_Reset ==
  call.op = "reset" =>
    /\ positive_descriptors = {}
    /\ negative_descriptors = {}
    /\ external_positive_descriptors = {}
    /\ external_negative_descriptors = {}
    /\ working_set = {}
    /\ _wi_seeds_used = {}
    /\ rank_contrib_pos = {}
    /\ rank_contrib_pos_ext = {}
    /\ rank_contrib_neg = {}
    /\ rank_contrib_neg_ext = {}
    /\ IsNone(results)
    /\ IsNone(rel_index)
    /\ IsNone(_ordered_results)
    /\ IsNone(_ordered_pos)
    /\ IsNone(_ordered_neg)
    /\ IsNone(_ordered_non_adj)
    /\ config = call.pre.config

\* A reset of a session that had adjudications of both signs, a working set
\* built from a seed, an index, results and rank snapshots.
C15_Witness ==
  /\ call.op = "reset"
  /\ call.pre.positive_descriptors # {}
  /\ call.pre.negative_descriptors # {}
  /\ call.pre.working_set # {}
  /\ call.pre._wi_seeds_used # {}
  /\ ~IsNone(call.pre.rel_index)
  /\ ~IsNone(call.pre.results)
  /\ call.pre.rank_contrib_pos # {}
  /\ call.pre.rank_contrib_neg # {}

\* The identifier, type and vector of every element of a set.
Triples(d_set) == {<<uuid(d), type(d), vector(d)>> : d \in d_set}

\* C16: get_state_bytes(), reset(), set_state_bytes(bytes, factory) restores
\* the four adjudication sets with the identifiers, types and vectors they
\* had: the bytes returned list exactly the triples of the four sets, and a
\* set_state_bytes that goes through leaves in each set exactly the elements
\* of the triples listed for it, with an empty working set, no seeds used,
\* no results and no index, so that a refine() right after it raises for
\* the missing index.
C16_RoundTrip ==
  /\ call.op = "get_state_bytes" =>
       LET state == Val(call.ret).state
       IN /\ Val(call.ret).name = STATE_ZIP_FILENAME
          /\ Entries(state.pos) = Triples(call.pre.positive_descriptors)
          /\ Entries(state.neg) = Triples(call.pre.negative_descriptors)
          /\ Entries(state.external_pos)
               = Triples(call.pre.external_positive_descriptors)
          /\ Entries(state.external_neg)
               = Triples(call.pre.external_negative_descriptors)
          /\ Len(state.pos) = Cardinality(call.pre.positive_descriptors)
          /\ Len(state.neg) = Cardinality(call.pre.negative_descriptors)
          /\ Len(state.external_pos)
               = Cardinality(call.pre.external_positive_descriptors)
          /\ Len(state.external_neg)
               = Cardinality(call.pre.external_negative_descriptors)
  /\ (call.op = "set_state_bytes" /\ call.err = "none") =>
       LET state == Val(call.ret).state
       IN /\ Triples(positive_descriptors) = Entries(state.pos)
          /\ Triples(negative_descriptors) = Entries(state.neg)
          /\ Triples(external_positive_descriptors)
               = Entries(state.external_pos)
          /\ Triples(external_negative_descriptors)
               = Entries(state.external_neg)
          /\ working_set = {}
          /\ _wi_seeds_used = {}
          /\ IsNone(results)
          /\ IsNone(rel_index)
          /\ RefineErrorNow = "NotInitialized"

\* Adjudications of both signs were exported, the session was reset, and the
\* exported bytes were loaded into the empty session.
C16_Witness ==
  /\ call.op = "set_state_bytes"
  /\ call.err = "none"
  /\ call.ret = archive
  /\ call.pre.positive_descriptors = {}
  /\ call.pre.negative_descriptors = {}
  /\ positive_descriptors # {}
  /\ negative_descriptors # {}

\* C17: a set_state_bytes that fails leaves the session as it was: when it
\* raises for bytes without the expected archive entry, or for a factory
\* element whose vector differs from the stored one, every field has the
\* value it had before the call.
C17_FailedImportKeepsState ==
  (call.op = "set_state_bytes" /\ call.err # "none") => Fields = call.pre

\* C18: the lock is released on every exit path: a thread whose call has
\* returned or raised holds the lock as often as it did when it made the
\* call, and a thread that is in no call holds it once for each with-block
\* it is inside, so a thread outside every with-block never keeps the lock.
C18_LockReleased ==
  \A t \in Threads :
    pc[t] = "idle" =>
      /\ local[t].err # "" => Holds(t) = local[t].held
      /\ Holds(t) = local[t].withs

\* A set_state_bytes that raised after it had taken the lock: the thread
\* holds nothing, and another thread has since taken the lock for a
\* with-block.
C18_Witness ==
  \E t, u \in Threads :
    /\ pc[t] = "idle"
    /\ local[t].err = "VectorMismatch"
    /\ local[t].held = 0
    /\ lock.owner = u
    /\ u # t
    /\ local[u].withs = 1

\* C19: external_descriptors with positives that are all external positives
\* already and negatives that are all external negatives already changes no
\* field of the session, and adjudicate with four empty arguments changes
\* none either: the sets and the four caches keep their values.
C19_Idempotent ==
  /\ (/\ call.op = "external_descriptors"
      /\ call.new_positives \subseteq call.pre.external_positive_descriptors
      /\ call.new_negatives \subseteq call.pre.external_negative_descriptors)
       => Fields = call.pre
  /\ (/\ call.op = "adjudicate"
      /\ call.new_positives = {}
      /\ call.new_negatives = {}
      /\ call.un_positives = {}
      /\ call.un_negatives = {})
       => Fields = call.pre

\* external_descriptors given one of two external positives and the external
\* negative the session already has, with a view cached.
C19_Witness ==
  /\ call.op = "external_descriptors"
  /\ call.new_positives # {}
  /\ call.new_positives \subseteq call.pre.external_positive_descriptors
  /\ call.new_positives # call.pre.external_positive_descriptors
  /\ ~IsNone(call.pre._ordered_pos)
  /\ ~IsNone(_ordered_pos)

\* C20: as long as no refine has gone through since the session was made,
\* reset or loaded, there are no results, and each of the four views returns
\* an empty list whatever the adjudications and the working set are;
\* ordered_results() keeps no cache of that empty list, before or after it
\* is read.
C20_EmptyBeforeRefine ==
  IsNone(results) =>
    /\ AllRet = <<>>
    /\ PositiveRet = <<>>
    /\ NegativeRet = <<>>
    /\ UnadjudicatedRet = <<>>
    /\ IsNone(_ordered_results)
    /\ IsNone(OrderedResultsCache(_ordered_results, results))

\* No results yet, with adjudications, a working set and an index, and the
\* three filtered views read.
C20_Witness ==
  /\ IsNone(results)
  /\ positive_descriptors # {}
  /\ working_set # {}
  /\ ~IsNone(rel_index)
  /\ ~IsNone(_ordered_pos)
  /\ ~IsNone(_ordered_neg)
  /\ ~IsNone(_ordered_non_adj)

\* No thread is inside a method.
AllReturned == \A t \in Threads : pc[t] = "idle"

\* C21: however the update_working_set calls of several threads interleave,
\* the neighbor index is queried at most once for each seed, and once all
\* calls have returned and seeds have been used, the relevancy index has
\* been built over the whole working set, which holds the neighbors of
\* every seed used.
C21_ConcurrentUpdateWorkingSet ==
  /\ \A d \in Elems : nn_calls[d] <= 1
  /\ (AllReturned /\ _wi_seeds_used # {}) =>
       /\ ~IsNone(rel_index)
       /\ Val(rel_index).built = working_set

\* The identifiers two exported lists have in common.
CommonIds(l1, l2) ==
  {l1[i][1] : i \in 1..Len(l1)} \cap {l2[i][1] : i \in 1..Len(l2)}

\* The pos and neg lists are disjoint, and so are the external ones.
DisjointLists(lists) ==
  /\ CommonIds(lists.pos, lists.neg) = {}
  /\ CommonIds(lists.external_pos, lists.external_neg) = {}

\* The four lists hold the triples of the four sets of the ledger.
ListsOfLedger(lists) ==
  /\ Entries(lists.pos) = Triples(positive_descriptors)
  /\ Entries(lists.neg) = Triples(negative_descriptors)
  /\ Entries(lists.external_pos) = Triples(external_positive_descriptors)
  /\ Entries(lists.external_neg) = Triples(external_negative_descriptors)

\* C22: what get_state_bytes() exports is a snapshot of one instant: the four
\* lists it makes equal the four sets of the ledger as they are at the step
\* that makes them, whatever other threads do before and after; the lists are
\* not changed by what other threads do to the ledger afterwards; the bytes
\* written hold exactly these lists; and the exported pos and neg lists are
\* disjoint, as are the exported external lists.
C22_ExportSnapshot ==
  /\ [](\A t \in Threads :
          pc[t] = "get_state_bytes_zip" => DisjointLists(Val(local[t].lists)))
  /\ [](~IsNone(archive) => DisjointLists(Val(archive).state))
  /\ [][\A t \in Threads :
          /\ (pc[t] = "get_state_bytes" /\ pc'[t] = "get_state_bytes_zip") =>
               /\ ListsOfLedger(Val(local'[t].lists))
               /\ UNCHANGED ledgerVars
          /\ (pc[t] = "get_state_bytes_zip"
                /\ pc'[t] = "get_state_bytes_zip") =>
               local'[t].lists = local[t].lists
          /\ (pc[t] = "get_state_bytes_zip" /\ pc'[t] = "idle") =>
               /\ ~IsNone(archive')
               /\ Val(archive').name = STATE_ZIP_FILENAME
               /\ Val(archive').state = Val(local[t].lists)]_vars

\* A thread has made its lists of a positive and a negative and has not
\* written the bytes yet, and another thread has since swapped the two
\* adjudications in the ledger.
C22_Witness ==
  \E t \in Threads :
    /\ pc[t] = "get_state_bytes_zip"
    /\ Val(local[t].lists).pos # <<>>
    /\ Val(local[t].lists).neg # <<>>
    /\ Entries(Val(local[t].lists).pos) = Triples(negative_descriptors)
    /\ Entries(Val(local[t].lists).neg) = Triples(positive_descriptors)

\* C23: between two resets (reset() or the reset inside set_state_bytes) the
\* working set and the seeds used only grow: a call after which a member of
\* either is gone is a reset or a set_state_bytes, never an adjudicate,
\* external_descriptors, update_working_set, refine, view read or
\* get_state_bytes, also when the seed that brought a member in has been
\* un-adjudicated.
C23_WorkingSetGrows ==
  [][(~(working_set \subseteq working_set')
        \/ ~(_wi_seeds_used \subseteq _wi_seeds_used'))
       => (CallReset \/ CallSetStateBytes)]_vars

\* The seeds used are no longer positive examples, and the working set they
\* brought in and the index built over it are still there.
C23_Witness ==
  /\ _wi_seeds_used # {}
  /\ working_set # {}
  /\ ~IsNone(rel_index)
  /\ nops >= 3
  /\ {uuid(p) : p \in positive_descriptors \cup external_positive_descriptors}
       \cap _wi_seeds_used = {}

\* C24: once N >= 1 distinct seeds have been used since the last reset, the
\* working set holds at least pos_seed_neighbors and at most
\* N * pos_seed_neighbors elements, for a neighbor index that returns the
\* number of neighbors it is asked for.
C24_WorkingSetSize ==
  _wi_seeds_used # {} =>
    /\ Cardinality(working_set) >= config.pos_seed_neighbors
    /\ Cardinality(working_set)
         <= Cardinality(_wi_seeds_used) * config.pos_seed_neighbors

\* Two seeds used whose neighbors do not overlap: the working set has
\* N * pos_seed_neighbors elements, more than pos_seed_neighbors.
C24_Witness ==
  /\ Cardinality(_wi_seeds_used) = 2
  /\ Cardinality(working_set) = 2 * config.pos_seed_neighbors
  /\ ~IsNone(rel_index)

\* Two seeds used whose neighbors are the same: the working set has
\* pos_seed_neighbors elements, fewer than N * pos_seed_neighbors.
C24_Overlap ==
  /\ Cardinality(_wi_seeds_used) = 2
  /\ Cardinality(working_set) = config.pos_seed_neighbors

\* What a session that keeps no cache returns for the four views: each one
\* computed from the results and the rank snapshots when it is read.
RecomputedAll == OrderedResultsRet(None, results)

RecomputedViews ==
  <<RecomputedAll,
    FilterIn(RecomputedAll, rank_contrib_pos \cup rank_contrib_pos_ext),
    FilterIn(RecomputedAll, rank_contrib_neg \cup rank_contrib_neg_ext),
    FilterNotIn(RecomputedAll,
                rank_contrib_pos \cup rank_contrib_pos_ext
                  \cup rank_contrib_neg \cup rank_contrib_neg_ext)>>

\* C25: in every state reached by a sequence of public operations, each
\* cached view that is not None equals the view recomputed from the current
\* results and rank snapshots, so that every read of a view returns what a
\* session without caches would return.
C25_CacheCoherent ==
  /\ ~IsNone(_ordered_results) => Val(_ordered_results) = RecomputedViews[1]
  /\ ~IsNone(_ordered_pos) => Val(_ordered_pos) = RecomputedViews[2]
  /\ ~IsNone(_ordered_neg) => Val(_ordered_neg) = RecomputedViews[3]
  /\ ~IsNone(_ordered_non_adj) => Val(_ordered_non_adj) = RecomputedViews[4]
  /\ Views = RecomputedViews

\* After a refine over two results, the positive and the negative view have
\* been read and are cached with the view of all results, and they differ.
C25_Witness ==
  /\ ~IsNone(results)
  /\ ~IsNone(_ordered_results)
  /\ ~IsNone(_ordered_pos)
  /\ ~IsNone(_ordered_neg)
  /\ Len(Val(_ordered_results)) = 2
  /\ Val(_ordered_pos) # <<>>
  /\ Val(_ordered_pos) # Val(_ordered_neg)

\* C26: in every state reached by operations executed one after the other,
\* there are results only if there is a relevancy index, there is a
\* relevancy index exactly when seeds have been used, and the four rank
\* snapshots are empty whenever there are no results.
C26_DerivedState ==
  /\ ~IsNone(results) => ~IsNone(rel_index)
  /\ ~IsNone(rel_index) <=> _wi_seeds_used # {}
  /\ IsNone(results) =>
       /\ rank_contrib_pos = {}
       /\ rank_contrib_pos_ext = {}
       /\ rank_contrib_neg = {}
       /\ rank_contrib_neg_ext = {}

\* Results ranked with a positive and an external negative, on a session
\* whose only positive has been un-adjudicated since.
C26_Witness ==
  /\ ~IsNone(results)
  /\ rank_contrib_pos # {}
  /\ rank_contrib_neg_ext # {}
  /\ positive_descriptors \cup external_positive_descriptors = {}
  /\ _wi_seeds_used # {}

\* A thread is inside a with-block of a method that takes the lock.
InLockedMethod(t) == pc[t] \in LockedMethods \cup {"set_state_bytes"}

\* C27: a thread that holds the lock through a with-block can call every
\* public operation without deadlock: it can start any method, each method
\* it is inside can take its next step (the views and set_state_bytes take
\* the lock again inside their own with-block), and when the call has
\* returned or raised the thread holds the lock as often as before the call;
\* as long as it is inside the with-block it owns the lock, and no other
\* thread is inside a with-block or inside a method that takes the lock.
C27_Reentrant ==
  \A t \in Threads :
    local[t].withs > 0 =>
      /\ lock.owner = t
      /\ (pc[t] = "idle" /\ nops < MaxThreadOps) =>
           /\ ENABLED Lock(t)
           /\ ENABLED ThreadSetStateBytesRead(t)
           /\ ENABLED ThreadUpdateWorkingSetStart(t)
      /\ pc[t] # "idle" => ENABLED ThreadStep(t)
      /\ (pc[t] = "idle" /\ local[t].err # "") =>
           /\ Holds(t) = local[t].held
           /\ Holds(t) = local[t].withs
      /\ \A u \in Threads \ {t} :
           /\ Holds(u) = 0
           /\ local[u].withs = 0
           /\ ~InLockedMethod(u)

\* Inside a with-block a thread has read the positive view, which had no
\* cache and called ordered_results(); it holds the lock once, as before
\* the call, and the other thread holds nothing.
C27_Witness ==
  \E t \in Threads :
    /\ local[t].withs = 1
    /\ pc[t] = "idle"
    /\ local[t].err = "none"
    /\ local[t].held = 1
    /\ Holds(t) = 1
    /\ nops = 1
    /\ ~IsNone(_ordered_pos)
    /\ \A u \in Threads \ {t} : Holds(u) = 0

====
